---- MODULE Spec2Model ----
(***************************************************************************)
(* A model of sol_inspect.py: the base58 address validator, the retrying,  *)
(* failing-over RPCClient.request, the three response decoders and run().  *)
(*                                                                         *)
(* JSON values are tagged tuples: <<"null">>, <<"int", n>>, <<"bool", b>>, *)
(* <<"float", tenths>> (the number tenths/10), <<"nan">>, <<"str", chars>> *)
(* (chars a sequence of one-character strings), <<"list", items>> and      *)
(* <<"obj", f>> with f a function from AllKeys to values, Absent marking a *)
(* key the dict does not hold.  Durations are in milliseconds.             *)
(***************************************************************************)
EXTENDS Integers, Sequences, FiniteSets, TLC

VARIABLES
    pc,           \* position of the program
    address,      \* args.address, a sequence of characters
    rpc,          \* args.rpc, the --rpc options given (<<>>: none)
    no_tokens,    \* args.no_tokens
    no_txs,       \* args.no_txs
    json_out,     \* args.json
    endpoints,    \* RPCClient.endpoints
    timeout,      \* RPCClient.timeout
    method,       \* request's method argument
    epIdx,        \* request: index of the endpoint the outer loop is at
    attempt,      \* request: the inner loop's attempt (0-based)
    last_error,   \* request: last_error
    response,     \* request: what the latest POST produced
    log,          \* POSTs and sleeps of the current request call, in order
    retval,       \* what the latest request call returned
    exc,          \* the exception in flight or caught last
    calls,        \* the request calls finished so far in this run
    sol_lamports, \* run: sol_lamports
    tokens,       \* run: tokens
    transactions, \* run: transactions
    out,          \* what was printed: stdout reports and stderr lines
    exit_code,    \* run's return value
    value         \* parse_token_accounts' argument

vars == <<pc, address, rpc, no_tokens, no_txs, json_out, endpoints, timeout,
          method, epIdx, attempt, last_error, response, log, retval, exc,
          calls, sol_lamports, tokens, transactions, out, exit_code, value>>

-----------------------------------------------------------------------------
(* JSON values and Python's view of them *)

AllKeys ==
    {"error", "result", "value", "pubkey", "account", "data", "parsed",
     "info", "mint", "tokenAmount", "amount", "decimals", "uiAmountString",
     "uiAmount", "signature", "blockTime", "confirmationStatus", "err"}

Absent == <<"absent">>
None == <<"null">>
JInt(n) == <<"int", n>>
JStr(chars) == <<"str", chars>>
JList(items) == <<"list", items>>

\* A dict holding exactly the fields of the record r.
Obj(r) == <<"obj", [k \in AllKeys |-> IF k \in DOMAIN r THEN r[k] ELSE Absent]>>
EmptyObj == <<"obj", [k \in AllKeys |-> Absent]>>

\* The dict {k1: v1, k2: v2}, a key left out when its value is Absent.
With(k1, v1, k2, v2) ==
    <<"obj", [k \in AllKeys |->
                 IF k = k1 THEN v1 ELSE IF k = k2 THEN v2 ELSE Absent]>>

IsObj(v) == v[1] = "obj"
Has(d, k) == d[2][k] # Absent
Get(d, k, default) == IF Has(d, k) THEN d[2][k] ELSE default

\* Python's truth value of a JSON value.
Truthy(v) ==
    CASE v[1] = "null" -> FALSE
      [] v[1] = "bool" -> v[2]
      [] v[1] = "int" -> v[2] # 0
      [] v[1] = "float" -> v[2] # 0
      [] v[1] = "nan" -> TRUE
      [] v[1] = "str" -> v[2] # <<>>
      [] v[1] = "list" -> v[2] # <<>>
      [] v[1] = "obj" -> \E k \in AllKeys : v[2][k] # Absent

\* An exception: its type and the parts of its message.
Exc(type, msg) == <<"exc", type, msg>>
Ok(v) == <<"ok", v>>
IsOk(r) == r[1] = "ok"

-----------------------------------------------------------------------------
(* base58_decode and validate_address *)

BASE58_ALPHABET ==
    <<"1", "2", "3", "4", "5", "6", "7", "8", "9",
      "A", "B", "C", "D", "E", "F", "G", "H", "J", "K", "L", "M", "N", "P",
      "Q", "R", "S", "T", "U", "V", "W", "X", "Y", "Z",
      "a", "b", "c", "d", "e", "f", "g", "h", "i", "j", "k", "m", "n", "o",
      "p", "q", "r", "s", "t", "u", "v", "w", "x", "y", "z">>

\* BASE58_ALPHABET.find(ch): the 0-based index, -1 when ch is not in it.
Find(ch) ==
    IF \E i \in 1..Len(BASE58_ALPHABET) : BASE58_ALPHABET[i] = ch
    THEN (CHOOSE i \in 1..Len(BASE58_ALPHABET) : BASE58_ALPHABET[i] = ch) - 1
    ELSE -1

\* The arbitrary-precision num is kept as its minimal little-endian bytes
\* (0 has none).  num * m + carry, from byte i on.
RECURSIVE MulAdd(_, _, _, _)
MulAdd(num, i, m, carry) ==
    IF i > Len(num)
    THEN IF carry = 0 THEN <<>> ELSE <<carry>>
    ELSE LET t == num[i] * m + carry
         IN  <<t % 256>> \o MulAdd(num, i + 1, m, t \div 256)

\* num after the loop has consumed the first n characters, all of them in
\* the alphabet: num = num * 58 + idx for each in turn.
RECURSIVE NumAfter(_, _)
NumAfter(chars, n) ==
    IF n = 0 THEN <<>>
    ELSE MulAdd(NumAfter(chars, n - 1), 1, 58, Find(chars[n]))

\* The loop over the characters: the final num, or the ValueError for the
\* first character that is not in the alphabet.
Accumulate(chars) ==
    LET bad == {i \in 1..Len(chars) : Find(chars[i]) = -1}
    IN  IF bad # {}
        THEN Exc("ValueError",
                 <<"invalid base58 character",
                   chars[CHOOSE i \in bad : \A j \in bad : i <= j]>>)
        ELSE Ok(NumAfter(chars, Len(chars)))

\* len(value) - len(value.lstrip("1"))
RECURSIVE LeadingOnes(_, _)
LeadingOnes(chars, i) ==
    IF i > Len(chars) \/ chars[i] # "1" THEN 0
    ELSE 1 + LeadingOnes(chars, i + 1)

Reverse(q) == [i \in 1..Len(q) |-> q[Len(q) + 1 - i]]

\* The decoded bytes, big-endian after the zero bytes of the padding.
base58_decode(chars) ==
    IF chars = <<>> THEN Exc("ValueError", <<"empty base58 string">>)
    ELSE LET acc == Accumulate(chars)
         IN  IF ~IsOk(acc) THEN acc
             ELSE Ok([i \in 1..LeadingOnes(chars, 1) |-> 0] \o Reverse(acc[2]))

validate_address_any_length(addr) ==
    LET decoded == base58_decode(addr)
    IN  IF ~IsOk(decoded)
        THEN Exc("ValueError", <<"Invalid address", decoded>>)
        ELSE Ok(None)

validate_address(addr) ==
    LET decoded == base58_decode(addr)
    IN  IF ~IsOk(decoded)
        THEN Exc("ValueError", <<"Invalid address", decoded>>)
        ELSE IF Len(decoded[2]) # 32
        THEN Exc("ValueError", <<"Invalid address length", Len(decoded[2])>>)
        ELSE Ok(None)

-----------------------------------------------------------------------------
(* Python's int() and str() on decoded JSON *)

Digits == <<"0", "1", "2", "3", "4", "5", "6", "7", "8", "9">>
IsDigit(c) == \E i \in 1..10 : Digits[i] = c
DigitValue(c) == (CHOOSE i \in 1..10 : Digits[i] = c) - 1

RECURSIVE DigitsValue(_, _)
DigitsValue(chars, n) ==
    IF n = 0 THEN 0
    ELSE 10 * DigitsValue(chars, n - 1) + DigitValue(chars[n])

RECURSIVE Strip(_)
Strip(chars) ==
    IF chars # <<>> /\ chars[1] = " " THEN Strip(Tail(chars))
    ELSE IF chars # <<>> /\ chars[Len(chars)] = " "
    THEN Strip(SubSeq(chars, 1, Len(chars) - 1))
    ELSE chars

\* int(text) for text of digits, signs, blanks and other characters (none of
\* them an underscore): blanks around are dropped, one sign is allowed, and
\* at least one digit and nothing but digits must follow.
IntOfStr(chars) ==
    LET t == Strip(chars)
        signed == t # <<>> /\ t[1] \in {"-", "+"}
        body == IF signed THEN Tail(t) ELSE t
    IN  IF body = <<>> \/ \E i \in 1..Len(body) : ~IsDigit(body[i])
        THEN Exc("ValueError", <<"invalid literal for int()", chars>>)
        ELSE IF signed /\ t[1] = "-" THEN Ok(-DigitsValue(body, Len(body)))
        ELSE Ok(DigitsValue(body, Len(body)))

\* Truncation toward zero of tenths/10.
Trunc10(tenths) ==
    IF tenths < 0 THEN -((-tenths) \div 10) ELSE tenths \div 10

PyInt_abs(v) ==
    CASE v[1] = "int" -> Ok(IF v[2] < 0 THEN -v[2] ELSE v[2])
      [] v[1] = "bool" -> Ok(IF v[2] THEN 1 ELSE 0)
      [] v[1] = "float" -> Ok(Trunc10(IF v[2] < 0 THEN -v[2] ELSE v[2]))
      [] v[1] = "nan" -> Exc("ValueError", <<"cannot convert float NaN to integer">>)
      [] v[1] = "str" -> IntOfStr(v[2])
      [] OTHER -> Exc("TypeError", <<"int() argument", v[1]>>)

\* int(v)
PyInt(v) ==
    CASE v[1] = "int" -> Ok(v[2])
      [] v[1] = "bool" -> Ok(IF v[2] THEN 1 ELSE 0)
      [] v[1] = "float" -> Ok(Trunc10(v[2]))
      [] v[1] = "nan" -> Exc("ValueError", <<"cannot convert float NaN to integer">>)
      [] v[1] = "str" -> IntOfStr(v[2])
      [] OTHER -> Exc("TypeError", <<"int() argument", v[1]>>)

RECURSIVE NatToStr(_)
NatToStr(n) ==
    IF n < 10 THEN <<Digits[n + 1]>>
    ELSE NatToStr(n \div 10) \o <<Digits[(n % 10) + 1]>>

\* str(v) for the values a token amount takes here: a str is itself, an int
\* its decimal digits, None the text None.
PyStr(v) ==
    CASE v[1] = "str" -> v[2]
      [] v[1] = "int" ->
            IF v[2] < 0 THEN <<"-">> \o NatToStr(-v[2]) ELSE NatToStr(v[2])
      [] v[1] = "null" -> <<"N", "o", "n", "e">>
      [] v[1] = "bool" -> IF v[2] THEN <<"T", "r", "u", "e">>
                                    ELSE <<"F", "a", "l", "s", "e">>

-----------------------------------------------------------------------------
(* parse_token_accounts *)

NoGet(v) == Exc("AttributeError", <<"no attribute get", v[1]>>)

\* One iteration of the loop: <<"skip">> (continue), <<"ok", holding>>
\* (append) or the exception it raises.
ParseItem(item) ==
    IF ~IsObj(item) THEN NoGet(item) ELSE
    LET pubkey == Get(item, "pubkey", None)
        account == Get(item, "account", EmptyObj)
    IN  IF ~IsObj(account) THEN NoGet(account) ELSE
    LET data == Get(account, "data", EmptyObj)
    IN  IF ~IsObj(data) THEN NoGet(data) ELSE
    LET parsed0 == Get(data, "parsed", EmptyObj)
    IN  IF ~IsObj(parsed0) THEN NoGet(parsed0) ELSE
    LET parsed == Get(parsed0, "info", EmptyObj)
    IN  IF ~IsObj(parsed) THEN NoGet(parsed) ELSE
    LET mint == Get(parsed, "mint", None)
        token_amount == Get(parsed, "tokenAmount", EmptyObj)
    IN  IF ~IsObj(token_amount) THEN NoGet(token_amount) ELSE
    LET amount_raw == Get(token_amount, "amount", None)
        decimals == Get(token_amount, "decimals", None)
        ui_amount_str == Get(token_amount, "uiAmountString", None)
        ui_amount == IF ui_amount_str # None THEN ui_amount_str
                     ELSE JStr(PyStr(Get(token_amount, "uiAmount", None)))
    IN  IF ~(Truthy(pubkey) /\ Truthy(mint) /\ amount_raw # None
                /\ decimals # None)
        THEN <<"skip">>
        ELSE LET d == PyInt(decimals)
             IN  IF ~IsOk(d) THEN d
                 ELSE Ok([mint |-> mint, token_account |-> pubkey,
                          amount_raw |-> PyStr(amount_raw),
                          decimals |-> d[2], ui_amount |-> ui_amount])

\* The loop over the items from item i on, tokens being the list so far.
RECURSIVE ParseFrom(_, _, _)
ParseFrom(items, i, toks) ==
    IF i > Len(items) THEN Ok(toks)
    ELSE LET r == ParseItem(items[i])
         IN  IF r[1] = "skip" THEN ParseFrom(items, i + 1, toks)
             ELSE IF IsOk(r) THEN ParseFrom(items, i + 1, Append(toks, r[2]))
             ELSE r

\* for item in value: a list gives its items; a str gives its characters and
\* a dict its keys, strs that have no get; None and numbers cannot be
\* iterated.
parse_token_accounts(v) ==
    CASE v[1] = "list" -> ParseFrom(v[2], 1, <<>>)
      [] v[1] \in {"str", "obj"} ->
            IF Truthy(v) THEN NoGet(JStr(<<>>)) ELSE Ok(<<>>)
      [] OTHER -> Exc("TypeError", <<"not iterable", v[1]>>)

-----------------------------------------------------------------------------
(* RPCClient.request *)

backoffs_linear == <<500, 1000, 1500>>
backoffs == <<500, 1000, 2000>>

AttemptsPerEndpoint_more == Len(backoffs) + 2
AttemptsPerEndpoint == Len(backoffs) + 1

\* The body of the try block for one POST to endpoint that produced resp:
\* <<"raise", type>> (requests.post raised), or <<"http", status, body>> with
\* body <<"text", t>> (not JSON) or <<"json", value>>.
TryBody(endpoint, resp) ==
    IF resp[1] = "raise" THEN Exc(resp[2], <<"post", endpoint>>)
    ELSE IF resp[2] # 200
        THEN Exc("RPCError", <<"HTTP", resp[2], endpoint, resp[3]>>)
    ELSE IF resp[3][1] # "json"
        THEN Exc("RPCError", <<"Invalid JSON", endpoint, resp[3]>>)
    ELSE LET data == resp[3][2] IN
        IF ~IsObj(data)
            THEN Exc("AttributeError", <<"no attribute get", data[1]>>)
        ELSE IF Truthy(Get(data, "error", None))
            THEN Exc("RPCError", <<"RPC error", endpoint, data[2]["error"]>>)
        ELSE IF ~Has(data, "result")
            THEN Exc("RPCError", <<"Malformed response", endpoint, data>>)
        ELSE Ok(data[2]["result"])

\* except Exception as exc: last_error = exc
KeepFirstError(prev, e) == IF prev = None THEN e ELSE prev
NextLastError(prev, e) == e

\* if attempt < len(backoffs): time.sleep(backoffs[attempt])
SleepsAlways(att) ==
    <<<<"sleep", backoffs[IF att < Len(backoffs) THEN att + 1 ELSE Len(backoffs)]>>>>
Sleeps(att) ==
    IF att < Len(backoffs) THEN <<<<"sleep", backoffs[att + 1]>>>> ELSE <<>>

\* raise RPCError(f"All RPC endpoints failed: {last_error}")
AllFailed(err) == Exc("RPCError", <<"All RPC endpoints failed", err>>)

\* Entering request: the loops start at the first endpoint and attempt 0
\* with no error seen.
BeginRequest_resume(m) ==
    /\ method' = m
    /\ pc' = "request"
    /\ attempt' = 0 /\ last_error' = None
    /\ log' = <<>>
    /\ UNCHANGED epIdx
BeginRequest(m) ==
    /\ method' = m
    /\ pc' = "request"
    /\ epIdx' = 1 /\ attempt' = 0 /\ last_error' = None
    /\ log' = <<>>

\* One iteration of the inner loop: the POST, the classification of what came
\* back, and either the return or the except clause with its sleep; after the
\* last attempt on the last endpoint, the raise that follows the loops.  A
\* call that ends is noted in calls: its method, how it ended, and the index
\* of the endpoint it ended on.
Attempt(resp) ==
    /\ pc = "request"
    /\ LET endpoint == endpoints[epIdx]
           r == TryBody(endpoint, resp)
           posted == Append(log, <<"post", endpoint>>)
       IN  /\ response' = resp
           /\ IF IsOk(r)
              THEN /\ retval' = r[2]
                   /\ pc' = "returned"
                   /\ log' = posted
                   /\ calls' = Append(calls, <<method, "returned", epIdx>>)
                   /\ UNCHANGED <<epIdx, attempt, last_error, exc>>
              ELSE /\ last_error' = NextLastError(last_error, r)
                   /\ log' = posted \o Sleeps(attempt)
                   /\ IF attempt + 1 < AttemptsPerEndpoint
                      THEN /\ attempt' = attempt + 1
                           /\ UNCHANGED <<epIdx, pc, exc, calls>>
                      ELSE IF epIdx < Len(endpoints)
                      THEN /\ attempt' = 0
                           /\ epIdx' = epIdx + 1
                           /\ UNCHANGED <<pc, exc, calls>>
                      ELSE /\ pc' = "raised"
                           /\ exc' = AllFailed(last_error')
                           /\ calls' = Append(calls, <<method, "raised", epIdx>>)
                           /\ UNCHANGED <<attempt, epIdx>>
                   /\ UNCHANGED retval
    /\ UNCHANGED <<address, rpc, no_tokens, no_txs, json_out, endpoints,
                   timeout, method, sol_lamports, tokens,
                   transactions, out, exit_code, value>>

-----------------------------------------------------------------------------
(* What an endpoint may answer *)

Methods == {"getBalance", "getTokenAccountsByOwner", "getSignaturesForAddress"}

\* The payload {"error": e, "result": r}, either key left out when Absent.
Payload(e, r) == With("error", e, "result", r)

ErrObj == JStr(<<"rate limited">>)

\* Values of the error field: left out, null, the non-null values Python
\* holds false, and values it holds true.
ErrorValues ==
    {Absent, None, JInt(0), JStr(<<>>), <<"bool", FALSE>>, EmptyObj,
     JList(<<>>), ErrObj, <<"bool", TRUE>>}

NetworkFailures == {<<"raise", "ConnectionError">>, <<"raise", "Timeout">>}

HttpFailures ==
    {<<"http", 429, <<"text", "Too Many Requests">>>>,
     <<"http", 500, <<"json", Payload(Absent, None)>>>>,
     <<"http", 200, <<"text", "<html>">>>>,
     <<"http", 200, <<"json", JList(<<>>)>>>>,
     <<"http", 200, <<"json", None>>>>}

ReqResults == {None, JList(<<>>), Obj([value |-> JInt(5)])}

ReqResponses ==
    NetworkFailures \cup HttpFailures
    \cup {<<"http", 200, <<"json", Payload(e, r)>>>> :
              e \in ErrorValues, r \in ReqResults \cup {Absent}}

-----------------------------------------------------------------------------
(* One request call on a constructed client *)

MaxEndpoints == 2
EndpointNames == {"A", "B"}
DefaultTimeout == 10

EndpointLists ==
    UNION {[1..n -> EndpointNames] : n \in 1..MaxEndpoints}

InitReq ==
    /\ pc = "request"
    /\ address = <<>> /\ rpc = <<>>
    /\ no_tokens = FALSE /\ no_txs = FALSE /\ json_out = FALSE
    /\ endpoints \in EndpointLists
    /\ timeout = DefaultTimeout
    /\ method \in Methods
    /\ epIdx = 1 /\ attempt = 0 /\ last_error = None
    /\ response = None /\ log = <<>> /\ retval = None /\ exc = None
    /\ calls = <<>> /\ sol_lamports = 0 /\ tokens = <<>>
    /\ transactions = <<>> /\ out = <<>> /\ exit_code = -1
    /\ value = None

NextReq == \E resp \in ReqResponses : Attempt(resp)

SpecReq == InitReq /\ [][NextReq]_vars

-----------------------------------------------------------------------------
(* The decoders around request *)

\* get_balance: int(result.get("value", 0))
get_balance(result) ==
    IF ~IsObj(result) THEN NoGet(result)
    ELSE PyInt(Get(result, "value", JInt(0)))

\* get_tokens: parse_token_accounts(result.get("value", []))
get_tokens(result) ==
    IF ~IsObj(result) THEN NoGet(result)
    ELSE parse_token_accounts(Get(result, "value", JList(<<>>)))

\* _iso_time_from_blocktime: N/A for None; <<"iso", t>> stands for the
\* ISO-8601 UTC text of the epoch second t; a str cannot be a timestamp.
iso_time_from_blocktime(block_time) ==
    IF block_time = None THEN Ok(<<"N/A">>)
    ELSE IF block_time[1] \in {"int", "float", "bool"}
    THEN Ok(<<"iso", block_time[2]>>)
    ELSE Exc("TypeError", <<"fromtimestamp", block_time[1]>>)

\* _err_summary: the empty text for None, else the compact JSON of err.
err_summary(err) == IF err = None THEN <<"text", <<>>>> ELSE <<"dumps", err>>

\* One iteration of get_signatures' loop.
SignatureItem(entry) ==
    IF ~IsObj(entry) THEN NoGet(entry)
    ELSE LET t == iso_time_from_blocktime(Get(entry, "blockTime", None))
         IN  IF ~IsOk(t) THEN t
             ELSE Ok([signature |-> Get(entry, "signature", None),
                      block_time |-> t[2],
                      confirmation_status |->
                          Get(entry, "confirmationStatus", None),
                      err |-> err_summary(Get(entry, "err", None))])

RECURSIVE SignaturesFrom(_, _, _)
SignaturesFrom(entries, i, items) ==
    IF i > Len(entries) THEN Ok(items)
    ELSE LET r == SignatureItem(entries[i])
         IN  IF IsOk(r) THEN SignaturesFrom(entries, i + 1, Append(items, r[2]))
             ELSE r

\* get_signatures: for entry in result
get_signatures(result) ==
    CASE result[1] = "list" -> SignaturesFrom(result[2], 1, <<>>)
      [] result[1] \in {"str", "obj"} ->
            IF Truthy(result) THEN NoGet(JStr(<<>>)) ELSE Ok(<<>>)
      [] OTHER -> Exc("TypeError", <<"not iterable", result[1]>>)

-----------------------------------------------------------------------------
(* run *)

DEFAULT_ENDPOINTS ==
    <<"https://api.mainnet-beta.solana.com", "https://solana.drpc.org">>

reqVars == <<method, epIdx, attempt, last_error, log>>

\* except Exception as exc: print(f"RPC error: {exc}", file=sys.stderr);
\* return 1
Fail_partial(e) ==
    /\ exc' = e
    /\ out' = out \o <<<<"stderr", <<"RPC error", e>>>>,
                       <<"report", IF json_out THEN "json" ELSE "table">>>>
    /\ exit_code' = 1
    /\ pc' = "exit"
Fail(e) ==
    /\ exc' = e
    /\ out' = Append(out, <<"stderr", <<"RPC error", e>>>>)
    /\ exit_code' = 1
    /\ pc' = "exit"

\* _print_json or _print_human; return 0
Finish ==
    /\ out' = Append(out, <<"report", IF json_out THEN "json" ELSE "table">>)
    /\ exit_code' = 0
    /\ pc' = "exit"

\* What run does after the query of method m has been decoded.
NextQuery(m) ==
    IF m = "getBalance" /\ ~no_tokens THEN "getTokenAccountsByOwner"
    ELSE IF m \in {"getBalance", "getTokenAccountsByOwner"} /\ ~no_txs
    THEN "getSignaturesForAddress"
    ELSE "print"

Proceed(m) ==
    /\ UNCHANGED exc
    /\ IF NextQuery(m) = "print"
       THEN Finish /\ UNCHANGED reqVars
       ELSE BeginRequest(NextQuery(m)) /\ UNCHANGED <<out, exit_code>>

\* validate_address; on ValueError print it and return 2; else build the
\* client and enter get_balance's request.
Validate ==
    /\ pc = "start"
    /\ LET v == validate_address(address)
       IN  IF ~IsOk(v)
           THEN /\ out' = Append(out, <<"stderr", v>>)
                /\ exit_code' = 2
                /\ pc' = "exit"
                /\ UNCHANGED <<endpoints, timeout, reqVars>>
           ELSE /\ endpoints' = IF rpc # <<>> THEN rpc ELSE DEFAULT_ENDPOINTS
                /\ timeout' = DefaultTimeout
                /\ BeginRequest("getBalance")
                /\ UNCHANGED <<out, exit_code>>
    /\ UNCHANGED <<address, rpc, no_tokens, no_txs, json_out, response,
                   retval, exc, calls, sol_lamports, tokens, transactions,
                   value>>

\* request has returned into get_balance.
AfterBalance ==
    /\ pc = "returned" /\ method = "getBalance"
    /\ LET r == get_balance(retval)
       IN  IF ~IsOk(r)
           THEN Fail(r) /\ UNCHANGED <<reqVars, sol_lamports>>
           ELSE sol_lamports' = r[2] /\ Proceed("getBalance")
    /\ UNCHANGED <<address, rpc, no_tokens, no_txs, json_out, endpoints,
                   timeout, response, retval, calls, tokens, transactions,
                   value>>

\* request has returned into get_tokens.
AfterTokens ==
    /\ pc = "returned" /\ method = "getTokenAccountsByOwner"
    /\ LET r == get_tokens(retval)
       IN  IF ~IsOk(r)
           THEN Fail(r) /\ UNCHANGED <<reqVars, tokens>>
           ELSE tokens' = r[2] /\ Proceed("getTokenAccountsByOwner")
    /\ UNCHANGED <<address, rpc, no_tokens, no_txs, json_out, endpoints,
                   timeout, response, retval, calls, sol_lamports,
                   transactions, value>>

\* request has returned into get_signatures.
AfterSignatures ==
    /\ pc = "returned" /\ method = "getSignaturesForAddress"
    /\ LET r == get_signatures(retval)
       IN  IF ~IsOk(r)
           THEN Fail(r) /\ UNCHANGED <<reqVars, transactions>>
           ELSE transactions' = r[2] /\ Proceed("getSignaturesForAddress")
    /\ UNCHANGED <<address, rpc, no_tokens, no_txs, json_out, endpoints,
                   timeout, response, retval, calls, sol_lamports, tokens,
                   value>>

\* request has raised RPCError, which reaches run's except clause.
Abort ==
    /\ pc = "raised"
    /\ Fail(exc)
    /\ UNCHANGED <<address, rpc, no_tokens, no_txs, json_out, endpoints,
                   timeout, reqVars, response, retval, calls, sol_lamports,
                   tokens, transactions, value>>

-----------------------------------------------------------------------------
(* The runs explored *)

MaxPad == 33
MaxTail == 2
MaxLong == 45
MaxRpc == 1

Rep(c, n) == [i \in 1..n |-> c]

\* "2" and "z" are the alphabet's second and last characters; "0" is not in
\* the alphabet.
TailChars == {"2", "z", "0"}
Tails == UNION {[1..n -> TailChars] : n \in 0..MaxTail}

\* Addresses: p ones followed by a short tail, and long runs of one character.
Addresses ==
    {Rep("1", p) \o t : p \in 0..MaxPad, t \in Tails}
    \cup {Rep(c, n) : c \in {"2", "z"}, n \in (MaxLong - 3)..MaxLong}

RpcOptions == {<<>>} \cup UNION {[1..n -> {"A"}] : n \in 1..MaxRpc}

RunFailures ==
    {<<"raise", "ConnectionError">>,
     <<"http", 429, <<"text", "Too Many Requests">>>>,
     <<"http", 200, <<"json", Payload(ErrObj, Absent)>>>>}

BalanceValues ==
    {JInt(0), JInt(5), JInt(-1), <<"float", 15>>, <<"float", -15>>,
     <<"float", 5>>, <<"nan">>, None, <<"bool", TRUE>>,
     JStr(<<"1", "2">>), JStr(<<"-", "3">>), JStr(<<"1", ".", "5">>),
     JStr(<<>>), JList(<<>>), EmptyObj}

BalanceResults ==
    {Obj([value |-> v]) : v \in BalanceValues} \cup {EmptyObj, None}

\* Token account records: whole, without decimals, and with a null account.
TokenInfo(amount) ==
    Obj([mint |-> JStr(<<"M">>), tokenAmount |-> amount])
TokenRecord(key, info) ==
    Obj([pubkey |-> key,
         account |-> Obj([data |-> Obj([parsed |-> Obj([info |-> info])])])])
WholeRecord ==
    TokenRecord(JStr(<<"P">>),
                TokenInfo(Obj([amount |-> JStr(<<"1", "5">>),
                               decimals |-> JInt(6),
                               uiAmountString |-> JStr(<<"1", "5">>)])))
NoDecimalsRecord ==
    TokenRecord(JStr(<<"Q">>), TokenInfo(Obj([amount |-> JStr(<<"7">>)])))
NullAccountRecord == Obj([pubkey |-> JStr(<<"R">>), account |-> None])

TokenResults ==
    {Obj([value |-> JList(l)]) :
        l \in {<<>>, <<WholeRecord>>, <<NoDecimalsRecord, WholeRecord>>,
               <<NullAccountRecord>>}}
    \cup {EmptyObj, None}

SignatureResults ==
    {JList(<<>>), None,
     JList(<<Obj([signature |-> JStr(<<"S">>), blockTime |-> JInt(7)])>>),
     JList(<<Obj([signature |-> JStr(<<"S">>),
                  blockTime |-> JStr(<<"7">>)])>>)}

RunResults(m) ==
    IF m = "getBalance" THEN BalanceResults
    ELSE IF m = "getTokenAccountsByOwner" THEN TokenResults
    ELSE SignatureResults

RunResponses(m) ==
    RunFailures
    \cup {<<"http", 200, <<"json", Payload(Absent, r)>>>> : r \in RunResults(m)}

Init ==
    /\ pc = "start"
    /\ address \in Addresses
    /\ rpc \in RpcOptions
    /\ no_tokens \in BOOLEAN /\ no_txs \in BOOLEAN /\ json_out \in BOOLEAN
    /\ endpoints = <<>> /\ timeout = 0
    /\ method = "" /\ epIdx = 1 /\ attempt = 0 /\ last_error = None
    /\ response = None /\ log = <<>> /\ retval = None /\ exc = None
    /\ calls = <<>> /\ sol_lamports = 0 /\ tokens = <<>>
    /\ transactions = <<>> /\ out = <<>> /\ exit_code = -1
    /\ value = None

Next ==
    \/ Validate
    \/ \E resp \in RunResponses(method) : Attempt(resp)
    \/ AfterBalance
    \/ AfterTokens
    \/ AfterSignatures
    \/ Abort

Spec == Init /\ [][Next]_vars

-----------------------------------------------------------------------------
(* Reading the log of a request call *)

IsPost(e) == e[1] = "post"
SelectPosts(l) == SelectSeq(l, IsPost)
IsSleep(e) == e[1] = "sleep"
SelectSleeps(l) == SelectSeq(l, IsSleep)
Durations(l) == [i \in 1..Len(SelectSleeps(l)) |-> SelectSleeps(l)[i][2]]
PostedTo(l) == [i \in 1..Len(SelectPosts(l)) |-> SelectPosts(l)[i][2]]

\* The result field of the payload the latest POST brought.
ResultOfResponse == response[3][2][2]["result"]
ErrorOfResponse == response[3][2][2]["error"]

\* post, then for i = 1..n: a sleep of d[i] and a post, all to endpoint e.
RECURSIVE Ladder(_, _, _)
Ladder(e, d, n) ==
    IF n = 0 THEN <<<<"post", e>>>>
    ELSE Ladder(e, d, n - 1) \o <<<<"sleep", d[n]>>, <<"post", e>>>>

\* Endpoint 1 four times, endpoint 2 four times, ...
Schedule(eps) == [i \in 1..(4 * Len(eps)) |-> eps[((i - 1) \div 4) + 1]]

-----------------------------------------------------------------------------
(* Claims about one request call, checked under SpecReq *)

\* With a single endpoint the call gives up only after a 4th failed attempt.
FourAttemptsBeforeRaise ==
    (pc = "raised" /\ Len(endpoints) = 1) => Len(SelectPosts(log)) = 4

\* C1: with a single endpoint, when the first N attempts (N in 0..3) fail and
\* attempt N+1 succeeds, request returns that attempt's result, and the call
\* is post, then N times (sleep, post), the sleeps being the first N of
\* 0.5 s, 1.0 s, 2.0 s in that order.
C1_SingleEndpointBackoff ==
    /\ FourAttemptsBeforeRaise
    /\ (pc = "returned" /\ Len(endpoints) = 1) =>
        LET N == Len(SelectPosts(log)) - 1
        IN  /\ N \in 0..3
            /\ retval = ResultOfResponse
            /\ log = Ladder(endpoints[1], <<500, 1000, 2000>>, N)
            /\ Durations(log) = SubSeq(<<500, 1000, 2000>>, 1, N)

C1_Witness ==
    /\ pc = "returned" /\ Len(endpoints) = 1
    /\ Len(SelectPosts(log)) = 4
    /\ Durations(log) = <<500, 1000, 2000>>

\* C2: with endpoints [A, B], when all 4 attempts on A fail and B's first
\* attempt succeeds, request returns B's result and the sleeps of the call are
\* exactly 0.5, 1.0, 2.0: none after A's 4th attempt, none before or after B's
\* POST.
C2_FailoverNoExtraSleep ==
    (pc = "returned" /\ Len(endpoints) = 2 /\ Len(SelectPosts(log)) = 5) =>
        /\ retval = ResultOfResponse
        /\ Durations(log) = <<500, 1000, 2000>>
        /\ log = Ladder(endpoints[1], <<500, 1000, 2000>>, 3)
                    \o <<<<"post", endpoints[2]>>>>

C2_Witness ==
    /\ pc = "returned" /\ Len(endpoints) = 2
    /\ endpoints[1] # endpoints[2]
    /\ PostedTo(log) = <<endpoints[1], endpoints[1], endpoints[1],
                         endpoints[1], endpoints[2]>>

\* C3: when every attempt on every endpoint fails, request raises RPCError
\* whose message embeds the failure of the last attempt (the 4th on the last
\* endpoint), and no failure of an attempt leaves request in any other way.
C3_LastFailureInRPCError ==
    /\ (exc # None) => pc = "raised"
    /\ (pc = "raised") =>
        LET last == endpoints[Len(endpoints)]
            cause == TryBody(last, response)
        IN  /\ PostedTo(log) = Schedule(endpoints)
            /\ ~IsOk(cause)
            /\ exc = <<"exc", "RPCError", <<"All RPC endpoints failed", cause>>>>
            /\ (response[1] = "raise") => exc[3][2][2] = response[2]
            /\ (response[1] = "http" /\ response[2] # 200) =>
                   exc[3][2][3] = <<"HTTP", response[2], last, response[3]>>
    /\ (pc = "returned") => IsOk(TryBody(endpoints[epIdx], response))

\* Both endpoints exhausted, the last attempt answered HTTP 429.
C3_Witness ==
    /\ pc = "raised" /\ Len(endpoints) = 2
    /\ response = <<"http", 429, <<"text", "Too Many Requests">>>>
    /\ exc[3][2][3][1] = "HTTP"

\* C4: the POSTs of a call are a prefix of the schedule (endpoint 1 four
\* times, endpoint 2 four times, ...) that ends at the first success or at the
\* end of the schedule; nothing is posted or slept after a success.
C4_PostsFollowSchedule ==
    LET n == Len(SelectPosts(log))
    IN  /\ n <= 4 * Len(endpoints)
        /\ PostedTo(log) = SubSeq(Schedule(endpoints), 1, n)
        /\ (pc = "returned") => (n >= 1 /\ IsPost(log[Len(log)]))
        /\ (pc = "raised") => n = 4 * Len(endpoints)
        /\ (pc = "request") => n = 4 * (epIdx - 1) + attempt

C4_Witness ==
    /\ pc = "returned" /\ Len(endpoints) = 2
    /\ Len(SelectPosts(log)) = 7

\* C7: an attempt answered 200 with a non-null error field is a failure,
\* whatever the value and whether or not a result comes with it: request
\* returns only from an attempt whose error field is absent or null and whose
\* result field is present.
C7_NonNullErrorIsFailure ==
    (pc = "returned") =>
        /\ ErrorOfResponse \in {Absent, None}
        /\ ResultOfResponse # Absent

-----------------------------------------------------------------------------
(* Claims about run, checked under Spec *)

IsReport(e) == e[1] = "report"
Reports == SelectSeq(out, IsReport)

AlphabetSet == {BASE58_ALPHABET[i] : i \in 1..Len(BASE58_ALPHABET)}

\* Empty, or holding a character outside the alphabet, or decoding to
\* another length than 32 bytes.
Invalid(a) ==
    \/ a = <<>>
    \/ \E i \in 1..Len(a) : a[i] \notin AlphabetSet
    \/ Len(base58_decode(a)[2]) # 32

InvalidAddresses == {a \in Addresses : Invalid(a)}
AddressInvalid == address \in InvalidAddresses

\* Some request call has been entered.
Queried == pc = "request" \/ log # <<>> \/ calls # <<>>

\* C5: no POST is issued before validate_address has accepted the address;
\* for an address that is empty, holds a character outside the base58
\* alphabet or decodes to another length than 32 bytes, run returns 2 having
\* issued no RPC call and printed no report.
C5_ValidateBeforeRpc ==
    /\ (pc = "start") => ~Queried
    /\ Queried => ~AddressInvalid
    /\ (pc # "start" /\ AddressInvalid) =>
          /\ pc = "exit" /\ exit_code = 2
          /\ ~Queried /\ SelectPosts(log) = <<>>
          /\ Reports = <<>>
    /\ (pc # "start" /\ ~AddressInvalid) => exit_code # 2
    /\ (address \in {Rep("1", 31), Rep("1", 33), Rep("2", 43), Rep("z", 44)})
          => AddressInvalid
    /\ (address \in {Rep("1", 32), Rep("2", 44), Rep("z", 43),
                     Rep("1", 30) \o <<"z", "z">>}) => ~AddressInvalid

\* An address of base58 characters that decodes to 33 bytes was refused.
C5_Witness ==
    /\ pc = "exit" /\ exit_code = 2
    /\ address = Rep("z", 44)
    /\ ~Queried

\* The queries the flags ask for, in run's order.
Requested ==
    <<"getBalance">>
    \o (IF no_tokens THEN <<>> ELSE <<"getTokenAccountsByOwner">>)
    \o (IF no_txs THEN <<>> ELSE <<"getSignaturesForAddress">>)

\* The queries entered so far.
Started ==
    [i \in 1..Len(calls) |-> calls[i][1]]
    \o (IF pc = "request" THEN <<method>> ELSE <<>>)

Decode(m, result) ==
    IF m = "getBalance" THEN get_balance(result)
    ELSE IF m = "getTokenAccountsByOwner" THEN get_tokens(result)
    ELSE get_signatures(result)

\* The latest call returned and its caller has decoded what it returned.
LastDecoded ==
    /\ calls # <<>> /\ calls[Len(calls)][2] = "returned"
    /\ pc # "returned"

\* C6: the queries are issued in the order getBalance,
\* getTokenAccountsByOwner, getSignaturesForAddress; once one fails (RPCError
\* or a decode error) no later query is entered, no report is printed and run
\* returns 1; a report and exit code 0 come only when every requested query
\* succeeded.
C6_AllOrNothing ==
    /\ Started = SubSeq(Requested, 1, Len(Started))
    /\ \A i \in 1..Len(calls) :
          calls[i][2] = "raised" =>
              /\ i = Len(calls) /\ pc \in {"raised", "exit"}
              /\ exc # None /\ Reports = <<>>
    /\ (LastDecoded /\ ~IsOk(Decode(calls[Len(calls)][1], retval))) =>
          /\ pc = "exit" /\ exit_code = 1
          /\ exc # None /\ Reports = <<>>
    /\ (exc # None) =>
          /\ pc \in {"raised", "exit"} /\ Reports = <<>>
          /\ (pc = "exit") => exit_code = 1
    /\ (Reports # <<>>) =>
          /\ pc = "exit" /\ exit_code = 0 /\ exc = None
          /\ Reports = <<<<"report", IF json_out THEN "json" ELSE "table">>>>
          /\ Started = Requested
          /\ \A i \in 1..Len(calls) : calls[i][2] = "returned"
    /\ (pc = "exit") =>
          /\ exit_code \in {0, 1, 2}
          /\ (exit_code = 0) => Reports # <<>>
          /\ (exit_code = 1) => exc # None

\* The token query failed after the balance query succeeded, with the
\* signature query asked for and never entered.
C6_Witness ==
    /\ pc = "exit" /\ exit_code = 1 /\ ~no_tokens /\ ~no_txs
    /\ Len(calls) = 2 /\ calls[1][2] = "returned" /\ calls[2][2] = "raised"
    /\ Reports = <<>>

\* get_balance has returned or raised, and nothing returned since.
BalanceDecoded ==
    /\ Len(calls) = 1 /\ calls[1][1] = "getBalance" /\ calls[1][2] = "returned"
    /\ pc \in {"request", "exit"}

BalanceIs(n) == exc = None /\ sol_lamports = n /\ exit_code \in {-1, 0}
BalanceError ==
    /\ pc = "exit" /\ exit_code = 1 /\ Reports = <<>>
    /\ exc # None
    /\ exc[2] \in {"TypeError", "ValueError", "AttributeError"}

\* C8 as the claim has it: the balance is 0 by default only when value is
\* absent, and a value that is present but negative or not an integer is an
\* error to the caller, run ending with exit code 1.
C8_InvalidValueIsError ==
    (BalanceDecoded /\ IsObj(retval)) =>
        LET v == retval[2]["value"]
        IN  /\ (v # Absent /\ (v[1] # "int" \/ v[2] < 0)) => BalanceError
            /\ BalanceIs(0) => v \in {Absent, JInt(0)}

\* C8, amended: the balance is 0 by default when value is absent; a value that
\* is present goes through int(): an integer, negative ones included, is
\* returned as it is, a float is truncated toward zero, a boolean is 0 or 1,
\* a text that spells an integer is parsed; only a value int() refuses (null,
\* NaN, a text that spells no integer, a list, an object), or a result that is
\* no object, is an error to the caller, run ending with exit code 1.
C8_BalanceIsIntOfValue ==
    BalanceDecoded =>
        IF ~IsObj(retval) THEN BalanceError
        ELSE LET v == retval[2]["value"]
             IN  CASE v = Absent -> BalanceIs(0)
                   [] v[1] = "int" -> BalanceIs(v[2])
                   [] v[1] = "bool" -> BalanceIs(IF v[2] THEN 1 ELSE 0)
                   [] v[1] = "float" ->
                         /\ exc = None
                         /\ IF v[2] >= 0
                            THEN 10 * sol_lamports <= v[2]
                                 /\ v[2] < 10 * sol_lamports + 10
                            ELSE 10 * sol_lamports >= v[2]
                                 /\ v[2] > 10 * sol_lamports - 10
                   [] v = JStr(<<"1", "2">>) -> BalanceIs(12)
                   [] v = JStr(<<"-", "3">>) -> BalanceIs(-3)
                   [] v \in {JStr(<<"1", ".", "5">>), JStr(<<>>)} -> BalanceError
                   [] v[1] \in {"null", "nan", "list", "obj"} -> BalanceError
                   [] OTHER -> TRUE

\* A negative balance went into a report printed with exit code 0.
C8_Witness ==
    /\ BalanceDecoded /\ pc = "exit" /\ exit_code = 0
    /\ retval = Obj([value |-> JInt(-1)])
    /\ sol_lamports = -1 /\ Reports # <<>>

\* The sleeps after k failed attempts in a row from the start of a call: the
\* attempt at place i of 4 on its endpoint is followed by 0.5 s, 1.0 s, 2.0 s
\* for i = 1, 2, 3 and by none for i = 4.
RECURSIVE SleepsAfter(_)
SleepsAfter(k) ==
    IF k = 0 THEN <<>>
    ELSE SleepsAfter(k - 1)
         \o (IF k % 4 = 0 THEN <<>> ELSE << <<500, 1000, 2000>>[k % 4] >>)

\* C10: request keeps nothing between calls: every call of a run starts at
\* the first endpoint with its first attempt and the whole backoff ladder,
\* whatever earlier calls went through, and the client's endpoints and
\* timeout stay as constructed.
C10_NoStateAcrossCalls ==
    LET n == Len(SelectPosts(log))
        failed == IF pc = "returned" THEN n - 1 ELSE n
    IN  /\ Queried =>
              /\ endpoints = (IF rpc # <<>> THEN rpc ELSE DEFAULT_ENDPOINTS)
              /\ timeout = DefaultTimeout
        /\ (pc \in {"request", "returned", "raised"}) =>
              /\ PostedTo(log) = SubSeq(Schedule(endpoints), 1, n)
              /\ Durations(log) = SleepsAfter(failed)
        /\ (pc = "request") => n = 4 * (epIdx - 1) + attempt

\* The balance query exhausted the first endpoint and was answered by the
\* second; the token query has made 4 attempts, all on the first endpoint.
C10_Witness ==
    /\ pc = "request" /\ method = "getTokenAccountsByOwner"
    /\ calls = <<<<"getBalance", "returned", 2>>>>
    /\ endpoints[1] # endpoints[2]
    /\ PostedTo(log) = <<endpoints[1], endpoints[1], endpoints[1], endpoints[1]>>
    /\ Durations(log) = <<500, 1000, 2000>>

-----------------------------------------------------------------------------
(* parse_token_accounts on its own *)

MaxRecords == 2

TokenAmounts ==
    {Absent, None}
    \cup {With("amount", a, "decimals", d) :
              a \in {Absent, None, JStr(<<"1", "5">>)},
              d \in {Absent, None, JInt(6), JStr(<<"x">>)}}

Infos ==
    {With("mint", m, "tokenAmount", ta) :
         m \in {Absent, JStr(<<>>), JStr(<<"M">>)}, ta \in TokenAmounts}

\* The account field: left out, null, or a dict that stops at some level or
\* goes down to an info; data may be the [text, "base64"] pair of an account
\* that was not parsed.
Accounts ==
    {Absent, None,
     With("data", Absent, "data", Absent),
     With("data", JList(<<JStr(<<"x">>), JStr(<<"base64">>)>>), "data", Absent),
     With("data", With("parsed", Absent, "parsed", Absent), "data", Absent),
     With("data", With("parsed", With("info", None, "info", Absent),
                       "parsed", Absent), "data", Absent)}
    \cup {With("data", With("parsed", With("info", i, "info", Absent),
                            "parsed", Absent), "data", Absent) : i \in Infos}

AccountRecords ==
    {With("pubkey", k, "account", a) :
         k \in {Absent, JStr(<<>>), JStr(<<"P">>)}, a \in Accounts}

InitTok ==
    /\ pc = "parse"
    /\ value \in {JList(l) : l \in UNION {[1..n -> AccountRecords] :
                                              n \in 0..MaxRecords}}
    /\ address = <<>> /\ rpc = <<>>
    /\ no_tokens = FALSE /\ no_txs = FALSE /\ json_out = FALSE
    /\ endpoints = <<>> /\ timeout = 0
    /\ method = "" /\ epIdx = 1 /\ attempt = 0 /\ last_error = None
    /\ response = None /\ log = <<>> /\ retval = None /\ exc = None
    /\ calls = <<>> /\ sol_lamports = 0 /\ tokens = <<>>
    /\ transactions = <<>> /\ out = <<>> /\ exit_code = -1

\* The call parse_token_accounts(value): its list, or the exception it raises.
ParseTokens ==
    /\ pc = "parse"
    /\ LET r == parse_token_accounts(value)
       IN  IF IsOk(r) THEN tokens' = r[2] /\ UNCHANGED exc
           ELSE exc' = r /\ UNCHANGED tokens
    /\ pc' = "parsed"
    /\ UNCHANGED <<address, rpc, no_tokens, no_txs, json_out, endpoints,
                   timeout, reqVars, response, retval, calls, sol_lamports,
                   transactions, out, exit_code, value>>

NextTok == ParseTokens

SpecTok == InitTok /\ [][NextTok]_vars

\* The value at the end of a path of keys below v; Absent when a key is
\* missing or the path runs into something that is no dict.
RECURSIVE At(_, _)
At(v, path) ==
    IF path = <<>> THEN v
    ELSE IF ~IsObj(v) THEN Absent
    ELSE At(v[2][Head(path)], Tail(path))

InfoPath == <<"account", "data", "parsed", "info">>
PubkeyOf(rec) == At(rec, <<"pubkey">>)
MintOf(rec) == At(rec, InfoPath \o <<"mint">>)
AmountOf(rec) == At(rec, InfoPath \o <<"tokenAmount", "amount">>)
DecimalsOf(rec) == At(rec, InfoPath \o <<"tokenAmount", "decimals">>)

\* All four of pubkey, mint, raw amount and decimals are there (null counts
\* as missing).
Complete(rec) ==
    /\ PubkeyOf(rec) \notin {Absent, None}
    /\ MintOf(rec) \notin {Absent, None}
    /\ AmountOf(rec) \notin {Absent, None}
    /\ DecimalsOf(rec) \notin {Absent, None}

CompleteRecords == SelectSeq(value[2], Complete)

\* C9: for every sequence of account records parse_token_accounts raises
\* nothing and returns one holding for each record in which pubkey, mint, raw
\* amount and decimals are all present, in input order; a record missing one
\* of them, at whatever level of nesting, is dropped without an error.
C9_DropsIncompleteOnly ==
    (pc = "parsed") =>
        /\ exc = None
        /\ Len(tokens) = Len(CompleteRecords)
        /\ \A j \in 1..Len(tokens) :
              /\ tokens[j].token_account = PubkeyOf(CompleteRecords[j])
              /\ tokens[j].mint = MintOf(CompleteRecords[j])

====
